---------------------------- MODULE Spec2Model ----------------------------
(***************************************************************************)
(* gdal2mbt: the tile-pyramid builder (create / resume), the level editor  *)
(* (set_levels) and the store merger (merge) of src/gdal2mbt.py, over an   *)
(* MBTiles store made of the tables metadata, images and map.              *)
(*                                                                         *)
(* Abstractions.  A raster is its pixel size as the store's metadata gives *)
(* it (in_width, in_height) and the set of base-level tiles whose pixel    *)
(* region is not all zero.  Encoded image bytes are the set of base-level  *)
(* tile coordinates whose pixels are visible in the image: the transparent *)
(* tile is {}, pasting is union, and thumbnail() keeps the set.            *)
(***************************************************************************)
EXTENDS Integers, Sequences, FiniteSets, TLC

VARIABLES
    cfg,    \* the arguments of the build: raster, num_levels, sub_bounds
    disk,   \* the committed content of the store being written
    db,     \* the same store as the open connection sees it (uncommitted rows too)
    pc,     \* where the process writing the store is
    n,      \* tiles the enumeration of the running resume() has consumed
    source, \* whether the running resume() was given a GDAL source
    srcs,   \* the stores of the sub-builds a merge reads
    defaults, \* the dict that is the default of create()'s metadata parameter
    hist    \* history of the operations applied (for stating properties)

vars == <<cfg, disk, db, pc, n, source, srcs, defaults, hist>>

----------------------------------------------------------------------------
(* Program constants *)

TILE_SIZE == 256

\* float('inf') of DEFAULT_SUB, encoded as a number no tile coordinate takes
Inf == -1

DEFAULT_SUB == <<0, 0, Inf, Inf>>

(* Bounds of the model *)

MaxZ == 2        \* num_levels ranges over 0..MaxZ
MaxXTiles == 3   \* widest raster, in base-level tiles
MaxYTiles == 2   \* highest raster, in base-level tiles
MaxPartial == 1  \* exceptions raised between the two inserts of a tile, per file

----------------------------------------------------------------------------
(* Arithmetic helpers *)

RECURSIVE Pow2(_)
Pow2(k) == IF k <= 0 THEN 1 ELSE 2 * Pow2(k - 1)

Max(a, b) == IF a >= b THEN a ELSE b
Min(a, b) == IF a <= b THEN a ELSE b

\* min(level_tiles, x) where x may be float('inf')
MinInf(a, x) == IF x = Inf THEN a ELSE Min(a, x)

\* x / invf on a sub-bound: integer (floor) division, inf stays inf
DivInf(x, invf) == IF x = Inf THEN Inf ELSE x \div invf

\* int(math.ceil(x / float(tile_size))) for x = p / q, p and q integers, q > 0
CeilDiv(p, q) == (p + q - 1) \div q

----------------------------------------------------------------------------
(* Tile grid, sub-bounds, numbering and enumeration (closures of resume).  *)
(* w, h: in_width, in_height; Z: levels[0]; sub: sub_bounds.               *)

\* _tile_coord that rounds down: int(x / tile_size)
_tile_coord_floor(x, y, tile_size) == <<x \div tile_size, y \div tile_size>>

_tile_coord(x, y, tile_size) == <<CeilDiv(x, tile_size), CeilDiv(y, tile_size)>>

\* _tile_coord(*get_level_size(level)): the size is (w / invf, h / invf)
get_level_tiles(w, h, Z, level) ==
    LET invf == Pow2(Z - level)
    IN  _tile_coord(w, h, TILE_SIZE * invf)

get_level_sub(w, h, Z, sub, level) ==
    LET lt == get_level_tiles(w, h, Z, level)
        invf == Pow2(Z - level)
        left == DivInf(sub[1], invf)
        bottom == DivInf(sub[2], invf)
        right == DivInf(sub[3], invf)
        top == DivInf(sub[4], invf)
    IN  <<Max(0, left), Max(0, bottom), MinInf(lt[1], right), MinInf(lt[2], top)>>

\* level_tiles[l]: tiles of the whole grid of level Z - l
level_tiles(w, h, Z, l) ==
    LET lt == get_level_tiles(w, h, Z, Z - l) IN lt[1] * lt[2]

\* level_sum_tiles[l] = sum(level_tiles[:l])
RECURSIVE level_sum_tiles(_, _, _, _)
level_sum_tiles(w, h, Z, l) ==
    IF l <= 0 THEN 0
    ELSE level_sum_tiles(w, h, Z, l - 1) + level_tiles(w, h, Z, l - 1)

\* get_tile_nr that starts again at 1 on every level
get_tile_nr_per_level(w, h, Z, level, tx, ty) ==
    tx + ty * get_level_tiles(w, h, Z, level)[1] + 1

\* get_tile_nr with the rows of the level, not its columns, as the stride
get_tile_nr_rows(w, h, Z, level, tx, ty) ==
    LET l == Z - level
    IN  level_sum_tiles(w, h, Z, l) + tx + ty * get_level_tiles(w, h, Z, level)[2] + 1

get_tile_nr(w, h, Z, level, tx, ty) ==
    LET l == Z - level
    IN  level_sum_tiles(w, h, Z, l) + tx + ty * get_level_tiles(w, h, Z, level)[1] + 1

\* for y in xrange(bottom, top) for x in xrange(left, right): (level, x, y)
LevelCoords(w, h, Z, sub, level) ==
    LET s == get_level_sub(w, h, Z, sub, level)
        cols == Max(0, s[3] - s[1])
        rows == Max(0, s[4] - s[2])
    IN  [i \in 1..(cols * rows) |->
            <<level, s[1] + ((i - 1) % cols), s[2] + ((i - 1) \div cols)>>]

\* the generator inside tile_coords: levels Z, Z-1, ..., 0
RECURSIVE CoordsFrom(_, _, _, _, _)
CoordsFrom(w, h, Z, sub, level) ==
    IF level < 0 THEN <<>>
    ELSE LevelCoords(w, h, Z, sub, level) \o CoordsFrom(w, h, Z, sub, level - 1)

\* the enumeration with the levels in ascending order: 0, 1, ..., Z
RECURSIVE CoordsUpFrom(_, _, _, _, _)
CoordsUpFrom(w, h, Z, sub, level) ==
    IF level > Z THEN <<>>
    ELSE LevelCoords(w, h, Z, sub, level) \o CoordsUpFrom(w, h, Z, sub, level + 1)

tile_coords_ascending(w, h, Z, sub) == CoordsUpFrom(w, h, Z, sub, 0)

tile_coords(w, h, Z, sub) == CoordsFrom(w, h, Z, sub, Z)


----------------------------------------------------------------------------
(* The store: the tables of an MBTiles file.                               *)
(*   metadata: set of <<name, value>> (name is the primary key)            *)
(*   images:   function tile_id -> tile_data (tile_id is the primary key)  *)
(*   map:      set of rows [zoom_level, tile_column, tile_row, tile_id]    *)
(*   tiles_idx: whether the unique index on the key of map exists          *)

NoImages == [i \in {} |-> {}]

\* a file name at which there is no file
NoFile == [exists |-> FALSE, metadata |-> {}, images |-> NoImages, map |-> {},
           tiles_idx |-> FALSE]

Row(level, tx, ty, id) ==
    [zoom_level |-> level, tile_column |-> tx, tile_row |-> ty, tile_id |-> id]

HasKey(store, level, tx, ty) ==
    \E r \in store.map :
        r.zoom_level = level /\ r.tile_column = tx /\ r.tile_row = ty

\* an operation's outcome: ok = FALSE when it raised, db = what it left behind
Ok(store) == [ok |-> TRUE, db |-> store]
Raised(store) == [ok |-> FALSE, db |-> store]

\* Image.new('RGBA', (TILE_SIZE, TILE_SIZE), (0,)*4), encoded
TransparentTile == {}

_create_tile_index(store) == [store EXCEPT !.tiles_idx = TRUE]

_drop_tile_index(store) == [store EXCEPT !.tiles_idx = FALSE]

\* INSERT INTO map: the unique index rejects a key that is already there
_insert_tile_map(store, id, level, tx, ty) ==
    IF store.tiles_idx /\ HasKey(store, level, tx, ty)
    THEN Raised(store)
    ELSE Ok([store EXCEPT !.map = @ \cup {Row(level, tx, ty, id)}])

\* INSERT [OR IGNORE] INTO images: tile_id is the primary key
_insert_tile_image(store, id, buf, ignore) ==
    IF id \in DOMAIN store.images
    THEN IF ignore THEN Ok(store) ELSE Raised(store)
    ELSE Ok([store EXCEPT !.images =
                [i \in DOMAIN store.images \cup {id} |->
                    IF i = id THEN buf ELSE store.images[i]]])

\* the map insert comes first; a failing image insert leaves it in place
_insert_tile(store, id, level, tx, ty, buf) ==
    LET m == _insert_tile_map(store, id, level, tx, ty)
    IN  IF m.ok THEN _insert_tile_image(m.db, id, buf, FALSE) ELSE m

_insert_metadata(store, name, value) ==
    IF \E kv \in store.metadata : kv[1] = name
    THEN Raised(store)
    ELSE Ok([store EXCEPT !.metadata = @ \cup {<<name, value>>}])

_tile_count(store) == Cardinality(store.map)

\* the pixel size _get_mbtiles_extent computes from the metadata; <<>> when
\* the metadata is missing (_read_metadata raises)
_get_mbtiles_extent(store) ==
    IF \E kv \in store.metadata : kv[1] = "bounds"
    THEN (CHOOSE kv \in store.metadata : kv[1] = "bounds")[2]
    ELSE <<>>

\* an image or None
None == [none |-> TRUE, px |-> {}]
Img(px) == [none |-> FALSE, px |-> px]

\* the rows the SELECT of _get_quad_mbtiles returns
QuadRows(store, level, tx, ty) ==
    {r \in store.map :
        /\ r.tile_id # 0
        /\ r.tile_id \in DOMAIN store.images
        /\ r.zoom_level = level + 1
        /\ r.tile_column \in {2 * tx, 2 * tx + 1}
        /\ r.tile_row \in {2 * ty, 2 * ty + 1}}

_get_quad_mbtiles(store, level, tx, ty) ==
    LET rows == QuadRows(store, level, tx, ty)
    IN  IF rows = {} THEN None
        ELSE Img(UNION {store.images[r.tile_id] : r \in rows})

\* the rectangle of a whole tile, not cut at the bounds of the raster
ReadRectWholeTile(w, h, Z, tx, ty) ==
    LET in_ytiles == get_level_tiles(w, h, Z, Z)[2]
        ox == tx * TILE_SIZE
        oy == ((in_ytiles - ty) * TILE_SIZE) - TILE_SIZE
                - (in_ytiles * TILE_SIZE - h)
    IN  <<ox, oy, TILE_SIZE, TILE_SIZE>>

\* the rectangle get_gdal_tile asks _get_gdal_image for: <<ox, oy, w, h>>
ReadRect(w, h, Z, tx, ty) ==
    LET in_ytiles == get_level_tiles(w, h, Z, Z)[2]
        ox == tx * TILE_SIZE
        oy == ((in_ytiles - ty) * TILE_SIZE) - TILE_SIZE
                - (in_ytiles * TILE_SIZE - h)
    IN  <<ox, Max(0, oy), Min(TILE_SIZE, w - ox), Min(TILE_SIZE, TILE_SIZE + oy)>>

\* the test of line 290: the tile reaches past the top or the right of the raster
IsEdge(w, h, Z, tx, ty) ==
    LET in_ytiles == get_level_tiles(w, h, Z, Z)[2]
        ox == tx * TILE_SIZE
        oy == ((in_ytiles - ty) * TILE_SIZE) - TILE_SIZE
                - (in_ytiles * TILE_SIZE - h)
    IN  TILE_SIZE + oy < TILE_SIZE \/ w - ox < TILE_SIZE

\* get_gdal_tile with a source: None over an all-zero region; an edge tile
\* is pasted onto itself and the new transparent canvas is returned
get_gdal_tile(w, h, Z, data, tx, ty) ==
    IF <<tx, ty>> \notin data THEN None
    ELSE IF IsEdge(w, h, Z, tx, ty) THEN Img(TransparentTile)
    ELSE Img({<<tx, ty>>})

\* create_tile that asks for the GDAL source at every level
create_tile_needs_source(store, w, h, Z, ds, data, id, level, tx, ty) ==
    IF ~ds THEN Raised(store)
    ELSE LET img == IF level = Z THEN get_gdal_tile(w, h, Z, data, tx, ty)
                    ELSE _get_quad_mbtiles(store, level, tx, ty)
         IN  IF img.none THEN _insert_tile_map(store, 0, level, tx, ty)
             ELSE _insert_tile(store, id, level, tx, ty, img.px)

\* create_tile: ds is whether a GDAL source was supplied
create_tile(store, w, h, Z, ds, data, id, level, tx, ty) ==
    IF level = Z /\ ~ds THEN Raised(store)
    ELSE LET img == IF level = Z THEN get_gdal_tile(w, h, Z, data, tx, ty)
                    ELSE _get_quad_mbtiles(store, level, tx, ty)
         IN  IF img.none THEN _insert_tile_map(store, 0, level, tx, ty)
             ELSE _insert_tile(store, id, level, tx, ty, img.px)

create_transparent_tile(store) ==
    _insert_tile_image(store, 0, TransparentTile, TRUE).db

\* create_empty: the tables, the index, the metadata rows, commit
create_empty(store, metadata) ==
    LET s0 == [store EXCEPT !.exists = TRUE, !.tiles_idx = TRUE]
    IN  IF \E kv \in metadata : \E old \in s0.metadata : old[1] = kv[1]
        THEN Raised(s0)
        ELSE Ok([s0 EXCEPT !.metadata = @ \cup metadata])

\* default_metadata of _get_metadata_from_gdal: the extent of the raster
default_metadata(W, H) == {<<"bounds", <<W, H>>>>}

\* _get_metadata_from_gdal(ds, metadata): the keys that metadata lacks are
\* set, in the dict that was passed, which is also what it returns
_get_metadata_from_gdal(W, H, metadata) ==
    metadata \cup {kv \in default_metadata(W, H) :
                      ~\E old \in metadata : old[1] = kv[1]}

\* start_at taken from the images table instead of the map table
start_at_images(store) == Cardinality(DOMAIN store.images)

\* start_at: islice(enumerate(...), start_at, None)
start_at(store) == _tile_count(store)

\* the loop of resume from element k (0-based) on, each tile committed; an
\* exception ends it, and the finally clause commits what the tile wrote
RECURSIVE resume_loop(_, _, _, _, _, _, _, _)
resume_loop(store, w, h, Z, sub, ds, data, k) ==
    LET coords == tile_coords(w, h, Z, sub)
    IN  IF k >= Len(coords) THEN Ok(store)
        ELSE LET c == coords[k + 1]
                 r == create_tile(store, w, h, Z, ds, data,
                                  get_tile_nr(w, h, Z, c[1], c[2], c[3]),
                                  c[1], c[2], c[3])
             IN  IF r.ok THEN resume_loop(r.db, w, h, Z, sub, ds, data, k + 1)
                 ELSE r

\* resume(num_levels, mbtiles, source, sub_bounds) run to its end
resume(store, Z, ds, sub, data) ==
    LET ext == _get_mbtiles_extent(store)
    IN  IF ext = <<>> THEN Raised(store)
        ELSE LET s1 == create_transparent_tile(store)
             IN  resume_loop(s1, ext[1], ext[2], Z, sub, ds, data, start_at(s1))

\* a rectangle <<x, y, w, h>> that ReadRaster can read from a raster of
\* W x H pixels
InsideRaster(r, W, H) ==
    /\ r[1] >= 0
    /\ r[2] >= 0
    /\ r[1] + r[3] <= W
    /\ r[2] + r[4] <= H

\* the loop of resume on a store whose metadata gives a size (w, h) that is
\* not the size W x H of the raster it reads: ReadRaster returns None for a
\* rectangle that is not inside the raster, on which _get_gdal_image raises.
\* Which tiles are all zero is taken from data by tile position.
RECURSIVE resume_loop_other(_, _, _, _, _, _, _, _, _)
resume_loop_other(store, w, h, Z, sub, W, H, data, k) ==
    LET coords == tile_coords(w, h, Z, sub)
    IN  IF k >= Len(coords) THEN Ok(store)
        ELSE LET c == coords[k + 1]
             IN  IF c[1] = Z /\ ~InsideRaster(ReadRect(w, h, Z, c[2], c[3]), W, H)
                 THEN Raised(store)
                 ELSE LET r == create_tile(store, w, h, Z, TRUE, data,
                                           get_tile_nr(w, h, Z, c[1], c[2], c[3]),
                                           c[1], c[2], c[3])
                      IN  IF r.ok
                          THEN resume_loop_other(r.db, w, h, Z, sub, W, H, data, k + 1)
                          ELSE r

\* create(num_levels, mbtiles, source, sub_bounds, metadata) run to its end,
\* metadata being the dict passed or the default one
create(store, W, H, Z, sub, data, metadata) ==
    LET e == create_empty(store, _get_metadata_from_gdal(W, H, metadata))
        ext == _get_mbtiles_extent(e.db)
    IN  IF ~e.ok THEN e
        ELSE IF ext = <<W, H>> THEN resume(e.db, Z, TRUE, sub, data)
        ELSE LET s1 == create_transparent_tile(e.db)
             IN  resume_loop_other(s1, ext[1], ext[2], Z, sub, W, H, data, start_at(s1))


\* UPDATE map SET zoom_level = zoom_level + 1, whatever diff is
_transpose_levels_by_one(store, diff) ==
    _create_tile_index(
        [_drop_tile_index(store) EXCEPT !.map =
            {Row(r.zoom_level + 1, r.tile_column, r.tile_row, r.tile_id) : r \in @}])

\* _transpose_levels: drop the index, shift every row, recreate the index,
\* commit (a uniform shift makes no two keys equal)
_transpose_levels(store, diff) ==
    _create_tile_index(
        [_drop_tile_index(store) EXCEPT !.map =
            {Row(r.zoom_level + diff, r.tile_column, r.tile_row, r.tile_id) : r \in @}])

\* SELECT MAX(zoom_level) FROM map, on a map that is not empty
MaxLevel(store) ==
    CHOOSE m \in {r.zoom_level : r \in store.map} :
        \A r \in store.map : r.zoom_level <= m

\* the DELETE FROM images of set_levels: every image that a map row of a
\* level below the cutoff references
DropImages(store, cutoff) ==
    LET gone == {r.tile_id : r \in {q \in store.map : q.zoom_level < cutoff}}
    IN  [store EXCEPT !.images = [i \in DOMAIN store.images \ gone |-> store.images[i]]]

\* the DELETE FROM map of set_levels
DropMap(store, cutoff) ==
    [store EXCEPT !.map = {r \in @ : ~(r.zoom_level < cutoff)}]

\* set_levels(mbtiles, num_levels); int(row[0]) raises on an empty map
set_levels(store, num_levels) ==
    IF store.map = {} THEN Raised(store)
    ELSE LET diff == num_levels - MaxLevel(store)
         IN  IF diff > 0
             THEN resume(_transpose_levels(store, diff), num_levels, FALSE,
                         DEFAULT_SUB, {})
             ELSE IF diff < 0
             THEN Ok(_transpose_levels(DropMap(DropImages(store, -diff), -diff), diff))
             ELSE Ok(store)

\* set_levels in which the UPDATE of _transpose_levels raises (an sqlite3
\* error, a KeyboardInterrupt): DROP INDEX is not part of a transaction and
\* stays, the deletes of the drop branch are committed before, the UPDATE is
\* rolled back, and nothing recreates the index
set_levels_update_raises(store, num_levels) ==
    IF store.map = {} THEN Raised(store)
    ELSE LET diff == num_levels - MaxLevel(store)
         IN  IF diff > 0 THEN Raised(_drop_tile_index(store))
             ELSE IF diff < 0
             THEN Raised(_drop_tile_index(DropMap(DropImages(store, -diff), -diff)))
             ELSE Ok(store)

\* _copy_tables(db, src, ('metadata',)): name is the primary key
_copy_tables(dst, src) ==
    IF \E kv \in src.metadata : \E old \in dst.metadata : old[1] = kv[1]
    THEN Raised(dst)
    ELSE Ok([dst EXCEPT !.metadata = @ \cup src.metadata])

\* _copy_tiles into a map table that has no unique index on its key
_copy_tiles_no_index(dst, src) ==
    LET ids == DOMAIN src.images \ {0}
    IN  IF ids \cap DOMAIN dst.images # {} THEN Raised(dst)
        ELSE Ok([dst EXCEPT
                    !.images = [i \in DOMAIN dst.images \cup ids |->
                                   IF i \in ids THEN src.images[i] ELSE dst.images[i]],
                    !.map = @ \cup src.map])

\* _copy_tiles(db, src): the images but image 0, then the map rows; a clash
\* of a primary key or of the unique index raises, nothing of src is kept
_copy_tiles(dst, src) ==
    LET ids == DOMAIN src.images \ {0}
    IN  IF ids \cap DOMAIN dst.images # {} THEN Raised(dst)
        ELSE IF dst.tiles_idx
                /\ \E r \in src.map :
                      HasKey(dst, r.zoom_level, r.tile_column, r.tile_row)
        THEN Raised(dst)
        ELSE Ok([dst EXCEPT
                    !.images = [i \in DOMAIN dst.images \cup ids |->
                                   IF i \in ids THEN src.images[i] ELSE dst.images[i]],
                    !.map = @ \cup src.map])

\* for db in mbtiles: _copy_tiles(out, db), from the i-th on
RECURSIVE copy_all(_, _, _)
copy_all(dst, mbtiles, i) ==
    IF i > Len(mbtiles) THEN Ok(dst)
    ELSE LET r == _copy_tiles(dst, mbtiles[i])
         IN  IF r.ok THEN copy_all(r.db, mbtiles, i + 1) ELSE r

\* merge(out, *mbtiles), mbtiles not empty
merge(out, mbtiles) ==
    IF out.exists THEN copy_all(out, mbtiles, 1)
    ELSE LET e == create_empty(out, {})
             t == _copy_tables(e.db, mbtiles[1])
         IN  IF t.ok THEN copy_all(t.db, mbtiles, 1) ELSE t

\* SQL NULL as a tile_id: a value that equals no tile_id, so that a row
\* holding it joins no image
NULL == -2

\* the tile_ids of a set in ascending order: the order in which a scan of
\* the images table returns its rows
RECURSIVE ScanOrder(_)
ScanOrder(ids) ==
    IF ids = {} THEN <<>>
    ELSE LET m == CHOOSE x \in ids : \A y \in ids : x <= y
         IN  <<m>> \o ScanOrder(ids \ {m})

\* _save_to_file(db, fn): the metadata rows; the images with tile_id NULL,
\* which the INTEGER PRIMARY KEY replaces by the next free row id (1 in an
\* empty table); the map rows with tile_id NULL
_save_to_file(src, dst) ==
    LET order == ScanOrder(DOMAIN src.images)
        free == IF DOMAIN dst.images = {} THEN 0
                ELSE CHOOSE m \in DOMAIN dst.images : \A i \in DOMAIN dst.images : i <= m
        ids == {free + k : k \in DOMAIN order}
        rows == {Row(r.zoom_level, r.tile_column, r.tile_row, NULL) : r \in src.map}
    IN  IF \E kv \in src.metadata : \E old \in dst.metadata : old[1] = kv[1]
        THEN Raised(dst)
        ELSE IF dst.tiles_idx
                /\ \E r \in rows : HasKey(dst, r.zoom_level, r.tile_column, r.tile_row)
        THEN Raised(dst)
        ELSE Ok([dst EXCEPT
                    !.metadata = @ \cup src.metadata,
                    !.images = [i \in DOMAIN dst.images \cup ids |->
                                   IF i \in ids THEN src.images[order[i - free]]
                                   ELSE dst.images[i]],
                    !.map = @ \cup rows])

\* copy(src, dst_fn), dst_fn a file name
copy(src, dst) ==
    LET e == create_empty(dst, {})
    IN  IF e.ok THEN _save_to_file(src, e.db) ELSE e

\* split with chunks of one base-level tile, whatever num_levels is
split_by_tile(Z, W, H) ==
    LET chunk_size == TILE_SIZE
        chunks == _tile_coord(W, H, chunk_size)
    IN  [i \in 1..(chunks[1] * chunks[2]) |->
            LET cx == (i - 1) % chunks[1]
                cy == (i - 1) \div chunks[1]
            IN  _tile_coord(cx * chunk_size, cy * chunk_size, TILE_SIZE)
                \o _tile_coord((cx + 1) * chunk_size, (cy + 1) * chunk_size, TILE_SIZE)]

\* split(num_levels, source): one sub-bounds rectangle per chunk of
\* 2^num_levels x 2^num_levels base-level tiles, cy outer, cx inner
split(Z, W, H) ==
    LET chunk_size == Pow2(Z) * TILE_SIZE
        chunks == _tile_coord(W, H, chunk_size)
    IN  [i \in 1..(chunks[1] * chunks[2]) |->
            LET cx == (i - 1) % chunks[1]
                cy == (i - 1) \div chunks[1]
            IN  _tile_coord(cx * chunk_size, cy * chunk_size, TILE_SIZE)
                \o _tile_coord((cx + 1) * chunk_size, (cy + 1) * chunk_size, TILE_SIZE)]

----------------------------------------------------------------------------
(* Inputs *)

Range(f) == {f[i] : i \in DOMAIN f}

\* raster sizes in pixels: one tile, the largest whole number of tiles, and
\* one that ends inside its last tile
Widths == {TILE_SIZE, MaxXTiles * TILE_SIZE, MaxXTiles * TILE_SIZE - 56}
Heights == {TILE_SIZE, MaxYTiles * TILE_SIZE - 56}

BaseGrid(W, H) ==
    LET t == _tile_coord(W, H, TILE_SIZE) IN (0..(t[1] - 1)) \X (0..(t[2] - 1))

\* rasters: which base-level tiles hold pixels that are not all zero
Rasters(W, H) ==
    LET G == BaseGrid(W, H)
        t == _tile_coord(W, H, TILE_SIZE)
        last == <<t[1] - 1, t[2] - 1>>
    IN  {G, {}, {last}}

\* sub_bounds: none, the first and the last rectangle split() gives, and one
\* that cuts through the parents of base-level tiles
SubBounds(W, H, Z) ==
    LET sp == split(Z, W, H)
    IN  {DEFAULT_SUB, sp[1], sp[Len(sp)], <<1, 0, MaxXTiles, MaxYTiles>>}

BuildConfigs ==
    UNION {UNION {UNION {
        {[W |-> W, H |-> H, Z |-> Z, sub |-> sub, data |-> data] :
            sub \in SubBounds(W, H, Z), data \in Rasters(W, H)} :
        Z \in 0..MaxZ} : H \in Heights} : W \in Widths}

----------------------------------------------------------------------------
(* The build: `gdal2mbt create` and `gdal2mbt create -r` on one file.  The *)
(* loop of resume() is stepped statement by statement, so that the process *)
(* can end between any two of them.                                        *)

\* the enumeration of the running resume(), from the store's metadata
Coords ==
    LET ext == _get_mbtiles_extent(db)
    IN  tile_coords(ext[1], ext[2], cfg.Z, cfg.sub)

Cur == Coords[n + 1]

CurNr ==
    LET ext == _get_mbtiles_extent(db)
    IN  get_tile_nr(ext[1], ext[2], cfg.Z, Cur[1], Cur[2], Cur[3])

\* the image create_tile computes for the current tile
CurImg ==
    LET ext == _get_mbtiles_extent(db)
    IN  IF Cur[1] = cfg.Z
        THEN get_gdal_tile(ext[1], ext[2], cfg.Z, cfg.data, Cur[2], Cur[3])
        ELSE _get_quad_mbtiles(db, Cur[1], Cur[2], Cur[3])

InitBuild ==
    /\ cfg \in BuildConfigs
    /\ disk = NoFile
    /\ db = NoFile
    /\ pc = "idle"
    /\ n = 0
    /\ source = FALSE
    /\ defaults = {}
    /\ srcs = <<>>
    /\ hist = [partial |-> 0, stopped |-> FALSE]

\* the body of resume() up to the loop, on the committed store
Enter(store, given) ==
    LET s1 == create_transparent_tile(store)
    IN  /\ db' = s1
        /\ n' = start_at(s1)
        /\ source' = given
        /\ pc' = "loop"

\* create(num_levels, mbtiles, source, sub_bounds): the file does not exist
Create ==
    /\ pc = "idle"
    /\ ~disk.exists
    /\ LET e == create_empty(disk, _get_metadata_from_gdal(cfg.W, cfg.H, defaults))
       IN  /\ disk' = e.db
           /\ Enter(e.db, TRUE)
    /\ defaults' = _get_metadata_from_gdal(cfg.W, cfg.H, defaults)
    /\ UNCHANGED <<cfg, srcs, hist>>

\* resume(num_levels, mbtiles, source, sub_bounds), with or without a source
Resume ==
    /\ pc \in {"idle", "done"}
    /\ disk.exists
    /\ \E given \in BOOLEAN : Enter(disk, given)
    /\ UNCHANGED <<cfg, disk, srcs, defaults, hist>>

\* an exception leaves the loop: the finally clause commits
Abort(store) ==
    /\ db' = store
    /\ disk' = store
    /\ pc' = "idle"
    /\ n' = 0
    /\ source' = FALSE
    /\ defaults' = {}

\* one commit: db.commit() after create_tile
Commit(store) ==
    /\ db' = store
    /\ disk' = store
    /\ n' = n + 1
    /\ pc' = "loop"
    /\ UNCHANGED <<source, defaults>>

\* create_tile up to and including _insert_tile_map; an empty tile is
\* complete with it and is committed
TileMap ==
    /\ pc = "loop"
    /\ n < Len(Coords)
    /\ IF Cur[1] = cfg.Z /\ ~source
       THEN Abort(db)
       ELSE LET id == IF CurImg.none THEN 0 ELSE CurNr
                r == _insert_tile_map(db, id, Cur[1], Cur[2], Cur[3])
            IN  IF ~r.ok THEN Abort(r.db)
                ELSE IF CurImg.none THEN Commit(r.db)
                ELSE /\ db' = r.db
                     /\ pc' = "mid"
                     /\ UNCHANGED <<disk, n, source, defaults>>
    /\ hist' = [hist EXCEPT !.stopped = @ \/ pc' = "idle"]
    /\ UNCHANGED <<cfg, srcs>>

\* _insert_tile_image of the current tile, then db.commit()
TileImage ==
    /\ pc = "mid"
    /\ LET r == _insert_tile_image(db, CurNr, CurImg.px, FALSE)
       IN  IF r.ok THEN Commit(r.db) ELSE Abort(r.db)
    /\ hist' = [hist EXCEPT !.stopped = @ \/ pc' = "idle",
                            !.partial = IF pc' = "idle" THEN @ + 1 ELSE @]
    /\ UNCHANGED <<cfg, srcs>>

\* the process is killed: what was not committed is rolled back
Kill ==
    /\ pc \in {"loop", "mid"}
    /\ db' = disk
    /\ pc' = "idle"
    /\ n' = 0
    /\ source' = FALSE
    /\ defaults' = {}
    /\ hist' = [hist EXCEPT !.stopped = TRUE]
    /\ UNCHANGED <<cfg, disk, srcs>>

\* an exception is raised inside the loop (KeyboardInterrupt, an sqlite3
\* error): the finally clause commits whatever the tile has written so far
Interrupt ==
    /\ pc \in {"loop", "mid"}
    /\ pc = "mid" => hist.partial < MaxPartial
    /\ Abort(db)
    /\ hist' = [hist EXCEPT !.stopped = TRUE,
                            !.partial = IF pc = "mid" THEN @ + 1 ELSE @]
    /\ UNCHANGED <<cfg, srcs>>

\* the enumeration is exhausted: finally: db.commit(); "Done!"
Finish ==
    /\ pc = "loop"
    /\ n >= Len(Coords)
    /\ disk' = db
    /\ pc' = "done"
    /\ n' = 0
    /\ source' = FALSE
    /\ defaults' = {}
    /\ UNCHANGED <<cfg, db, srcs, hist>>

Next == Create \/ Resume \/ TileMap \/ TileImage \/ Kill \/ Interrupt \/ Finish

Spec == InitBuild /\ [][Next]_vars

----------------------------------------------------------------------------
(* The level editor: `gdal2mbt levels` on a complete store built without   *)
(* sub-bounds, applied up to MaxOps times.                                 *)

MaxOps == 2      \* calls of set_levels on one store

\* the store a complete build of the raster of cfg with num_levels = Z leaves
Complete(Z) == create(NoFile, cfg.W, cfg.H, Z, DEFAULT_SUB, cfg.data, {}).db

InitLevels ==
    /\ cfg \in {c \in BuildConfigs : c.sub = DEFAULT_SUB}
    /\ disk = Complete(cfg.Z)
    /\ db = disk
    /\ pc = "idle"
    /\ n = 0
    /\ source = FALSE
    /\ defaults = {}
    /\ srcs = <<>>
    /\ hist = [orig |-> disk, prev |-> disk, ops |-> <<>>, ok |-> TRUE]

\* set_levels(mbtiles, num_levels), the resume() it calls included
SetLevels ==
    /\ Len(hist.ops) < MaxOps
    /\ \E num_levels \in 0..MaxZ :
          LET r == set_levels(disk, num_levels)
          IN  /\ disk' = r.db
              /\ db' = r.db
              /\ hist' = [hist EXCEPT !.prev = disk,
                                      !.ops = Append(@, num_levels),
                                      !.ok = r.ok]
    /\ UNCHANGED <<cfg, pc, n, source, srcs, defaults>>

NextLevels == SetLevels

SpecLevels == InitLevels /\ [][NextLevels]_vars

----------------------------------------------------------------------------
(* The merger: `gdal2mbt merge` over the stores of sub-builds of one       *)
(* raster, one build per rectangle of a partition of the base-level grid.  *)

MaxMerges == 2   \* calls of merge on one destination

\* partitions of the base-level grid: the rectangles of split(Z, ...), and
\* one rectangle per base-level tile
Partitions(c) == {split(c.Z, c.W, c.H), split(0, c.W, c.H)}

InitMerge ==
    /\ cfg \in {c \in BuildConfigs : c.sub = DEFAULT_SUB}
    /\ \E parts \in Partitions(cfg) :
          /\ srcs = [i \in DOMAIN parts |->
                        create(NoFile, cfg.W, cfg.H, cfg.Z, parts[i], cfg.data, {}).db]
          \* the destination: no file yet, or the file of the first sub-build
          /\ \E first \in BOOLEAN :
                /\ disk = IF first THEN srcs[1] ELSE NoFile
                /\ hist = [parts |-> parts, first |-> first, calls |-> 0,
                           args |-> <<>>, ok |-> TRUE, prev |-> disk,
                           merged |-> IF first THEN {1} ELSE {}]
    /\ db = disk
    /\ pc = "idle"
    /\ n = 0
    /\ source = FALSE
    /\ defaults = {}

\* the argument lists of a call, as indexes into srcs: one source (as
\* `merge -s` calls merge), all of them, all but the first (whose file may be
\* the destination), and all of them with the first named once more
MergeCalls ==
    LET N == Len(srcs)
    IN  {<<i>> : i \in 1..N}
        \cup {[i \in 1..N |-> i]}
        \cup {[i \in 1..(N - 1) |-> i + 1]}
        \cup {[i \in 1..(N + 1) |-> IF i <= N THEN i ELSE 1]}

\* merge(out, *mbtiles)
Merge ==
    /\ hist.calls < MaxMerges
    /\ \E args \in MergeCalls :
          /\ args # <<>>
          /\ LET r == merge(disk, [i \in DOMAIN args |-> srcs[args[i]]])
             IN  /\ disk' = r.db
                 /\ db' = r.db
                 /\ hist' = [hist EXCEPT
                               !.calls = @ + 1,
                               !.args = args,
                               !.ok = r.ok,
                               !.prev = disk,
                               !.merged = {i \in DOMAIN srcs : srcs[i].map \subseteq r.db.map}]
    /\ UNCHANGED <<cfg, pc, n, source, srcs, defaults>>

NextMerge == Merge

SpecMerge == InitMerge /\ [][NextMerge]_vars

----------------------------------------------------------------------------
(* The grid arithmetic of resume() and split(), applied to rasters whose    *)
(* sizes lie around the tile boundaries: the grid of a level, the rectangle *)
(* read for a base-level tile, the rectangles of `gdal2mbt config`.         *)

\* sizes in pixels: one pixel past, well inside and exactly on a boundary
GridSizes(maxTiles) ==
    {k * TILE_SIZE + d : k \in 0..(maxTiles - 1), d \in {1, 200, TILE_SIZE}}

NoGridOp == [op |-> "none", level |-> 0, tiles |-> <<>>, tile |-> <<>>,
             rect |-> <<>>, rects |-> <<>>]

InitGrid ==
    /\ cfg \in {[W |-> W, H |-> H, Z |-> Z, sub |-> DEFAULT_SUB, data |-> {}] :
                   W \in GridSizes(MaxXTiles), H \in GridSizes(MaxYTiles), Z \in 0..MaxZ}
    /\ disk = NoFile
    /\ db = NoFile
    /\ pc = "idle"
    /\ n = 0
    /\ source = FALSE
    /\ defaults = {}
    /\ srcs = <<>>
    /\ hist = NoGridOp

\* get_level_tiles(level), for a level of the pyramid
LevelGrid ==
    /\ \E level \in 0..cfg.Z :
          hist' = [NoGridOp EXCEPT !.op = "grid", !.level = level,
                      !.tiles = get_level_tiles(cfg.W, cfg.H, cfg.Z, level)]
    /\ UNCHANGED <<cfg, disk, db, pc, n, source, srcs, defaults>>

\* get_gdal_tile's call of _get_gdal_image, for a base-level tile of the
\* enumeration
ReadTile ==
    /\ \E c \in Range(LevelCoords(cfg.W, cfg.H, cfg.Z, cfg.sub, cfg.Z)) :
          hist' = [NoGridOp EXCEPT !.op = "read", !.tile = <<c[2], c[3]>>,
                      !.rect = ReadRect(cfg.W, cfg.H, cfg.Z, c[2], c[3])]
    /\ UNCHANGED <<cfg, disk, db, pc, n, source, srcs, defaults>>

\* split(num_levels, source)
Split ==
    /\ hist' = [NoGridOp EXCEPT !.op = "split", !.rects = split(cfg.Z, cfg.W, cfg.H)]
    /\ UNCHANGED <<cfg, disk, db, pc, n, source, srcs, defaults>>

NextGrid == LevelGrid \/ ReadTile \/ Split

SpecGrid == InitGrid /\ [][NextGrid]_vars

----------------------------------------------------------------------------
(* One store under all the operations: built by create, then resumed,      *)
(* edited by set_levels and merged into, up to MaxOps calls, each of them  *)
(* run to its return.  A call of set_levels can end on an exception inside *)
(* _transpose_levels.                                                      *)

InitStore ==
    /\ cfg \in BuildConfigs
    /\ disk = create(NoFile, cfg.W, cfg.H, cfg.Z, cfg.sub, cfg.data, {}).db
    /\ db = disk
    /\ pc = "idle"
    /\ n = 0
    /\ source = FALSE
    /\ defaults = {}
    \* the store of the sub-build of the first rectangle of split()
    /\ srcs = <<create(NoFile, cfg.W, cfg.H, cfg.Z,
                       split(cfg.Z, cfg.W, cfg.H)[1], cfg.data, {}).db>>
    /\ hist = [ops |-> 0, ok |-> TRUE, raised |-> FALSE]

\* what a call leaves in the file, and how it returned
Returned(r, raised) ==
    /\ disk' = r.db
    /\ db' = r.db
    /\ hist' = [ops |-> hist.ops + 1, ok |-> r.ok, raised |-> hist.raised \/ raised]
    /\ UNCHANGED <<cfg, pc, n, source, srcs, defaults>>

\* resume(num_levels, mbtiles, source, sub_bounds), with or without a source
StoreResume ==
    /\ hist.ops < MaxOps
    /\ \E given \in BOOLEAN :
          Returned(resume(disk, cfg.Z, given, cfg.sub, cfg.data), FALSE)

\* set_levels(mbtiles, num_levels)
StoreSetLevels ==
    /\ hist.ops < MaxOps
    /\ \E num_levels \in 0..MaxZ : Returned(set_levels(disk, num_levels), FALSE)

\* set_levels(mbtiles, num_levels) ended by an exception in the UPDATE of
\* _transpose_levels
StoreSetLevelsRaises ==
    /\ hist.ops < MaxOps
    /\ \E num_levels \in 0..MaxZ :
          LET r == set_levels_update_raises(disk, num_levels)
          IN  ~r.ok /\ disk.map # {} /\ Returned(r, TRUE)

\* merge(out, src) into the store
StoreMerge ==
    /\ hist.ops < MaxOps
    /\ Returned(merge(disk, srcs), FALSE)

NextStore == StoreResume \/ StoreSetLevels \/ StoreSetLevelsRaises \/ StoreMerge

SpecStore == InitStore /\ [][NextStore]_vars

----------------------------------------------------------------------------
(* `gdal2mbt create -m`: the build runs on an in-memory database, which    *)
(* copy() then writes to the file.  db is the in-memory database, disk the *)
(* file.                                                                   *)

InitCopy ==
    /\ cfg \in BuildConfigs
    /\ disk = NoFile
    /\ db = NoFile
    /\ pc = "idle"
    /\ n = 0
    /\ source = FALSE
    /\ defaults = {}
    /\ srcs = <<>>
    /\ hist = [ok |-> TRUE]

\* gdal2mbt.create(**config) with mbtiles = sqlite3.connect(':memory:')
CreateInMemory ==
    /\ pc = "idle"
    /\ LET r == create(NoFile, cfg.W, cfg.H, cfg.Z, cfg.sub, cfg.data, defaults)
       IN  /\ db' = r.db
           /\ hist' = [ok |-> r.ok]
           /\ pc' = IF r.ok THEN "built" ELSE "done"
    /\ defaults' = _get_metadata_from_gdal(cfg.W, cfg.H, defaults)
    /\ UNCHANGED <<cfg, disk, n, source, srcs>>

\* gdal2mbt.copy(mem_db, db_fn)
CopyToFile ==
    /\ pc = "built"
    /\ LET r == copy(db, disk)
       IN  /\ disk' = r.db
           /\ hist' = [ok |-> r.ok]
    /\ pc' = "done"
    /\ UNCHANGED <<cfg, db, n, source, srcs, defaults>>

NextCopy == CreateInMemory \/ CopyToFile

SpecCopy == InitCopy /\ [][NextCopy]_vars

----------------------------------------------------------------------------
(* The library: one process that calls gdal2mbt.create more than once,     *)
(* each call for a raster and a new store, with or without the metadata    *)
(* argument. srcs holds the stores the calls made, hist what was called.   *)

MaxCreates == 2   \* calls of create in one process

\* the rasters the process builds, each as a whole
ApiRasters == {c \in BuildConfigs : c.sub = DEFAULT_SUB}

InitApi ==
    /\ cfg \in ApiRasters
    /\ disk = NoFile
    /\ db = NoFile
    /\ pc = "idle"
    /\ n = 0
    /\ source = FALSE
    /\ defaults = {}
    /\ srcs = <<>>
    /\ hist = <<>>

\* create(num_levels, mbtiles, source) with metadata left out, so that the
\* default dict of the parameter is what _get_metadata_from_gdal fills, or
\* with metadata={} passed by the caller
CreateCall ==
    /\ n < MaxCreates
    /\ \E c \in (IF n = 0 THEN {cfg} ELSE ApiRasters), explicit \in BOOLEAN :
          LET metadata == IF explicit THEN {} ELSE defaults
              r == create(NoFile, c.W, c.H, c.Z, DEFAULT_SUB, c.data, metadata)
          IN  /\ cfg' = c
              /\ srcs' = Append(srcs, r.db)
              /\ hist' = Append(hist, [W |-> c.W, H |-> c.H, Z |-> c.Z,
                                       data |-> c.data, explicit |-> explicit,
                                       ok |-> r.ok])
              /\ defaults' = IF explicit THEN defaults
                             ELSE _get_metadata_from_gdal(c.W, c.H, defaults)
    /\ n' = n + 1
    /\ UNCHANGED <<disk, db, pc, source>>

NextApi == CreateCall

SpecApi == InitApi /\ [][NextApi]_vars

----------------------------------------------------------------------------
(* Properties of the build *)

Keys(store) == {<<r.zoom_level, r.tile_column, r.tile_row>> : r \in store.map}

\* the enumeration of the build, as every run of it computes it
BuildCoords == tile_coords(cfg.W, cfg.H, cfg.Z, cfg.sub)

\* the store one uninterrupted create() leaves
FullBuild == create(NoFile, cfg.W, cfg.H, cfg.Z, cfg.sub, cfg.data, {}).db

\* every (level, col, row) of the grid of one level
LevelKeys(level) ==
    LET lt == get_level_tiles(cfg.W, cfg.H, cfg.Z, level)
    IN  {<<level, x, y>> : x \in 0..(lt[1] - 1), y \in 0..(lt[2] - 1)}

GridKeys == UNION {LevelKeys(level) : level \in 0..cfg.Z}

Nr(k) == get_tile_nr(cfg.W, cfg.H, cfg.Z, k[1], k[2], k[3])

\* the rows of the store at the four child positions of (level, tx, ty)
ChildRows(store, level, tx, ty) ==
    {r \in store.map :
        /\ r.zoom_level = level + 1
        /\ r.tile_column \in {2 * tx, 2 * tx + 1}
        /\ r.tile_row \in {2 * ty, 2 * ty + 1}}

\* C1 (as claimed): whenever a run of resume() ends normally, however often
\* the build was interrupted and resumed before with the same num_levels and
\* sub_bounds, the store holds the TileMap rows and the TileImage rows of
\* one uninterrupted run.
C1_ResumeIdempotence ==
    pc = "done" => /\ disk.map = FullBuild.map
                   /\ disk.images = FullBuild.images

\* C1, restricted to builds in which no exception was raised between the two
\* inserts of a tile (kills, and exceptions between tiles, only).
C1_ResumeIdempotenceNoPartial ==
    (pc = "done" /\ hist.partial = 0) =>
        /\ disk.map = FullBuild.map
        /\ disk.images = FullBuild.images

\* C2: in every committed state of the store, the keys of TileMap are
\* exactly the first tileCount elements of the enumeration: an element of
\* the enumeration is stored iff its position is at most tileCount.
C2_CheckpointInvariant ==
    disk.exists =>
        LET coords == BuildCoords
            keys == Keys(disk)
        IN  /\ _tile_count(disk) <= Len(coords)
            /\ Cardinality(keys) = _tile_count(disk)
            /\ \A i \in DOMAIN coords :
                  (i <= _tile_count(disk)) <=> (coords[i] \in keys)

\* C2's case: the process ended inside a tile, between tiles of a level,
\* and left a store that is neither empty nor complete.
C2_Witness ==
    /\ pc = "idle"
    /\ hist.partial > 0
    /\ cfg.sub # DEFAULT_SUB
    /\ _tile_count(disk) > 1
    /\ _tile_count(disk) < Len(BuildCoords)
    /\ C2_CheckpointInvariant

\* C3: get_tile_nr is strictly increasing along the enumeration, at least
\* 1, injective over the grids of all levels, and without sub-bounds the
\* n-th enumerated tile has number n.
C3_TileNumbering ==
    LET coords == BuildCoords
        nrs == [i \in DOMAIN coords |-> Nr(coords[i])]
        grid == GridKeys
    IN  /\ \A i \in DOMAIN coords :
              /\ nrs[i] >= 1
              /\ i > 1 => nrs[i - 1] < nrs[i]
              /\ cfg.sub = DEFAULT_SUB => nrs[i] = i
        /\ Cardinality({Nr(k) : k \in grid}) = Cardinality(grid)

\* C3's case: a build with sub-bounds has stored a derived tile under the
\* number get_tile_nr gives it, in a grid with more than one row.
C3_Witness ==
    /\ cfg.sub # DEFAULT_SUB
    /\ get_level_tiles(cfg.W, cfg.H, cfg.Z, cfg.Z)[2] > 1
    /\ \E r \in disk.map :
          /\ r.zoom_level < cfg.Z
          /\ r.tile_id = Nr(<<r.zoom_level, r.tile_column, r.tile_row>>)
    /\ C3_TileNumbering

\* C4 (as claimed): a stored derived tile has imageId 0 iff each of its four
\* child positions has no TileMap row or a row with imageId 0.
C4_EmptyPropagation ==
    \A r \in disk.map :
        r.zoom_level < cfg.Z =>
            ((r.tile_id = 0) <=>
                \A c \in ChildRows(disk, r.zoom_level, r.tile_column, r.tile_row) :
                    c.tile_id = 0)

\* C4, restricted to builds in which no exception was raised between the two
\* inserts of a tile.
C4_EmptyPropagationNoPartial ==
    hist.partial = 0 => C4_EmptyPropagation

\* C7: in a build without sub-bounds no tile of a level below Z is
\* generated, committed or not, unless every tile of the grid of the level
\* above it is committed.
C7_ChildrenBeforeParent ==
    cfg.sub = DEFAULT_SUB =>
        \A r \in db.map :
            r.zoom_level < cfg.Z => LevelKeys(r.zoom_level + 1) \subseteq Keys(disk)

\* C7's case: a resumed build without sub-bounds has just generated a
\* derived tile with four children.
C7_Witness ==
    /\ cfg.sub = DEFAULT_SUB
    /\ hist.stopped
    /\ pc = "mid"
    /\ Cur[1] < cfg.Z
    /\ Cardinality(ChildRows(disk, Cur[1], Cur[2], Cur[3])) = 4
    /\ C7_ChildrenBeforeParent

\* C11 (as claimed): every store create_empty has returned holds one
\* TileImage row with imageId 0 (imageId is the primary key: a second row
\* with it cannot exist).
C11_CreateEmptyImage0 ==
    disk.exists => 0 \in DOMAIN disk.images

\* C11, for what resume() does on entry: once create_transparent_tile has
\* run, the connection sees image 0, with the transparent bytes, and running
\* it again changes nothing.
C11_TransparentTileOnResume ==
    pc \in {"loop", "mid", "done"} =>
        /\ 0 \in DOMAIN db.images
        /\ db.images[0] = TransparentTile
        /\ create_transparent_tile(db) = db

\* C12 (as claimed): in every committed state of a build, every TileMap row
\* has imageId 0 or get_tile_nr of its key, a TileImage row with that
\* imageId exists, and every non-zero TileImage id is referenced by exactly
\* one TileMap row.
C12_ReferentialIntegrity ==
    /\ \A r \in disk.map :
          /\ r.tile_id \in {0, Nr(<<r.zoom_level, r.tile_column, r.tile_row>>)}
          /\ r.tile_id \in DOMAIN disk.images
    /\ \A i \in DOMAIN disk.images \ {0} :
          Cardinality({r \in disk.map : r.tile_id = i}) = 1

\* C12, restricted to builds in which no exception was raised between the
\* two inserts of a tile.
C12_ReferentialIntegrityNoPartial ==
    hist.partial = 0 => C12_ReferentialIntegrity

\* no TileMap row with a non-zero imageId lacks its TileImage row, and no
\* TileImage row but image 0 lacks its TileMap row
NoPartialTile(store) ==
    /\ \A r \in store.map : r.tile_id # 0 => r.tile_id \in DOMAIN store.images
    /\ \A i \in DOMAIN store.images \ {0} : \E r \in store.map : r.tile_id = i

\* a step in which the running build stops on an exception or a kill
BuildStops == pc \in {"loop", "mid"} /\ pc' = "idle"

\* C13 (as claimed): when the build stops inside a tile, the committed store
\* keeps the rows of the last fully committed tile, and no committed state
\* holds half a tile.
C13_PerTileFailure ==
    /\ [](NoPartialTile(disk))
    /\ [][BuildStops => /\ disk'.map = disk.map
                        /\ DOMAIN disk'.images \ {0} = DOMAIN disk.images \ {0}]_vars

\* C13, for the steps of create_tile that come before _insert_tile_map (the
\* raster read, the quadrant read, the encoding) and for a kill: a build
\* that stops while no insert of the tile has run leaves the rows as they
\* were committed.
C13_FailureBeforeInserts ==
    [][(BuildStops /\ pc = "loop") =>
          /\ disk'.map = disk.map
          /\ DOMAIN disk'.images \ {0} = DOMAIN disk.images \ {0}]_vars

\* a base-level tile of the enumeration has no TileMap row in the store
BaseRemains(store) ==
    LET coords == BuildCoords
        keys == Keys(store)
    IN  \E i \in DOMAIN coords : coords[i][1] = cfg.Z /\ coords[i] \notin keys

\* C14: resume() without a raster fails iff a base-level tile remains to be
\* generated, and then writes no TileMap row; otherwise it completes every
\* derived level.  While it runs, every row it has written is of a level
\* below Z, and so is the tile it is at.
C14_MissingRaster ==
    /\ (disk.exists /\ pc \in {"idle", "done"}) =>
          LET r == resume(disk, cfg.Z, FALSE, cfg.sub, cfg.data)
          IN  /\ ~r.ok <=> BaseRemains(disk)
              /\ ~r.ok => r.db.map = disk.map
              /\ r.ok => Keys(r.db) = Range(BuildCoords)
    /\ (pc \in {"loop", "mid"} /\ ~source) =>
          /\ \A r \in db.map \ disk.map : r.zoom_level < cfg.Z
          /\ pc = "mid" => Cur[1] < cfg.Z

\* C14's case: a build was stopped, resumed without a raster, and is
\* writing a derived tile that has an image of its own.
C14_Witness ==
    /\ hist.stopped
    /\ pc = "mid"
    /\ ~source
    /\ Cur[1] < cfg.Z
    /\ ~BaseRemains(disk)
    /\ C14_MissingRaster

\* C17 (as claimed): resume() on a store whose tileCount is at least the
\* length of the enumeration returns without error, with or without a
\* raster, and leaves TileMap and TileImage as they are.
C17_ResumeCompleteNoOp ==
    (/\ disk.exists
     /\ pc \in {"idle", "done"}
     /\ _tile_count(disk) >= Len(BuildCoords)) =>
        \A given \in BOOLEAN :
            LET r == resume(disk, cfg.Z, given, cfg.sub, cfg.data)
            IN  /\ r.ok
                /\ r.db.map = disk.map
                /\ r.db.images = disk.images

\* C17, for a store that holds image 0.
C17_ResumeCompleteNoOpWithImage0 ==
    (0 \in DOMAIN disk.images) => C17_ResumeCompleteNoOp

\* C18 (as claimed): the stored image of a base-level tile that reaches past
\* the right or the top of the raster, over a region that is not empty,
\* shows the pixels read from the raster.
C18_EdgeTileContent ==
    \A r \in disk.map :
        (/\ r.zoom_level = cfg.Z
         /\ <<r.tile_column, r.tile_row>> \in cfg.data
         /\ IsEdge(cfg.W, cfg.H, cfg.Z, r.tile_column, r.tile_row)
         /\ r.tile_id \in DOMAIN disk.images) =>
            /\ r.tile_id # 0
            /\ <<r.tile_column, r.tile_row>> \in disk.images[r.tile_id]

\* C18, for the base-level tiles that lie inside the raster.
C18_InnerTileContent ==
    \A r \in disk.map :
        (/\ r.zoom_level = cfg.Z
         /\ <<r.tile_column, r.tile_row>> \in cfg.data
         /\ ~IsEdge(cfg.W, cfg.H, cfg.Z, r.tile_column, r.tile_row)
         /\ r.tile_id \in DOMAIN disk.images) =>
            /\ r.tile_id # 0
            /\ disk.images[r.tile_id] = {<<r.tile_column, r.tile_row>>}

----------------------------------------------------------------------------
(* Properties of the level editor *)

\* the last call of set_levels and the levels it found
LastZ == hist.ops[Len(hist.ops)]
PrevMax == MaxLevel(hist.prev)

Shifted(rows, diff) ==
    {Row(r.zoom_level + diff, r.tile_column, r.tile_row, r.tile_id) : r \in rows}

\* the (level, col, row) -> bytes pairs of the joined view `tiles`
View(store) ==
    {<<r.zoom_level, r.tile_column, r.tile_row, store.images[r.tile_id]>> :
        r \in {q \in store.map : q.tile_id \in DOMAIN store.images}}

\* C6 (as claimed): set_levels(store, Z) then set_levels(store, Z0), Z0 the
\* original maximum level, restores the TileMap rows, and every original
\* tile, those of image 0 included, resolves to its original bytes.
C6_LevelRoundTrip ==
    (Len(hist.ops) = 2 /\ hist.ops[2] = cfg.Z) =>
        /\ disk.map = hist.orig.map
        /\ \A r \in hist.orig.map :
              /\ r.tile_id \in DOMAIN disk.images
              /\ disk.images[r.tile_id] = hist.orig.images[r.tile_id]

\* C6, for a first call that removes levels (Z < Z0) only.
C6_LevelRoundTripDown ==
    (Len(hist.ops) = 2 /\ hist.ops[2] = cfg.Z /\ hist.ops[1] < cfg.Z) =>
        /\ disk.map = hist.orig.map
        /\ disk.images = hist.orig.images

\* C9 (as claimed): set_levels with num_levels below the maximum level M
\* removes the rows of the levels below M - num_levels and the images only
\* they reference, shifts the other rows down, and keeps image 0 and every
\* image a surviving row references.
C9_DropLevels ==
    (Len(hist.ops) > 0 /\ LastZ < PrevMax) =>
        LET cutoff == PrevMax - LastZ
            kept == {r \in hist.prev.map : r.zoom_level >= cutoff}
            only == {i \in DOMAIN hist.prev.images :
                        /\ \E r \in hist.prev.map \ kept : r.tile_id = i
                        /\ \A r \in kept : r.tile_id # i}
        IN  /\ disk.map = Shifted(kept, -cutoff)
            /\ DOMAIN disk.images = DOMAIN hist.prev.images \ only
            /\ 0 \in DOMAIN disk.images
            /\ \A r \in disk.map : r.tile_id \in DOMAIN disk.images

\* C9 without image 0: the rows, and the images other than image 0.
C9_DropLevelsButImage0 ==
    (Len(hist.ops) > 0 /\ LastZ < PrevMax) =>
        LET cutoff == PrevMax - LastZ
            kept == {r \in hist.prev.map : r.zoom_level >= cutoff}
            only == {i \in DOMAIN hist.prev.images :
                        /\ \E r \in hist.prev.map \ kept : r.tile_id = i
                        /\ \A r \in kept : r.tile_id # i}
        IN  /\ disk.map = Shifted(kept, -cutoff)
            /\ DOMAIN disk.images \ {0} = (DOMAIN hist.prev.images \ only) \ {0}
            /\ \A r \in disk.map : r.tile_id # 0 => r.tile_id \in DOMAIN disk.images

\* C10: set_levels with num_levels above the maximum level M of a complete
\* store built without sub-bounds succeeds without a raster, moves every
\* row up by num_levels - M with its imageId, adds rows of the levels below
\* num_levels - M only, and ends with the TileMap rows of a fresh complete
\* build with Z = num_levels.
C10_AddLevels ==
    (/\ Len(hist.ops) > 0
     /\ LastZ > PrevMax
     /\ hist.prev = Complete(PrevMax)) =>
        LET diff == LastZ - PrevMax
        IN  /\ hist.ok
            /\ Shifted(hist.prev.map, diff) \subseteq disk.map
            /\ \A r \in disk.map \ Shifted(hist.prev.map, diff) : r.zoom_level < diff
            /\ \A level \in 0..(diff - 1) : \E r \in disk.map : r.zoom_level = level
            /\ disk.map = Complete(LastZ).map

\* C10's case: two levels were added to a complete store, and the new
\* levels hold a tile with an image of its own and an empty one.
C10_Witness ==
    /\ Len(hist.ops) > 0
    /\ LastZ > PrevMax + 1
    /\ hist.prev = Complete(PrevMax)
    /\ \E r \in disk.map : r.zoom_level < LastZ - PrevMax /\ r.tile_id # 0
    /\ \E r \in disk.map : r.zoom_level < LastZ - PrevMax /\ r.tile_id = 0
    /\ C10_AddLevels

----------------------------------------------------------------------------
(* Properties of the merger *)

AllMerged == hist.merged = DOMAIN srcs

\* C5 (as claimed): once the stores of all rectangles of a partition are
\* merged, the joined tile view of the destination holds the same
\* (level, col, row) -> bytes pairs as one full build without sub-bounds.
C5_MergeCompleteness ==
    (hist.calls > 0 /\ hist.ok /\ AllMerged) => View(disk) = View(Complete(cfg.Z))

\* C5, for the rectangles of split(Z, ...) merged into the first sub-build's
\* file (a destination that a build created).
C5_MergeCompletenessAligned ==
    (/\ hist.calls > 0
     /\ hist.ok
     /\ AllMerged
     /\ hist.first
     /\ hist.parts = split(cfg.Z, cfg.W, cfg.H)) => View(disk) = View(Complete(cfg.Z))

\* C8 (as claimed): after merge, the destination holds image 0, and every
\* TileMap row references a TileImage row of the destination.
C8_MergeKeepsImage0 ==
    (hist.calls > 0 /\ hist.ok) =>
        /\ 0 \in DOMAIN disk.images
        /\ \A r \in disk.map : r.tile_id \in DOMAIN disk.images

\* C8, for a destination that a build created.
C8_MergeKeepsImage0Existing ==
    (hist.calls > 0 /\ hist.ok /\ hist.first) =>
        /\ 0 \in DOMAIN disk.images
        /\ \A r \in disk.map : r.tile_id \in DOMAIN disk.images

\* a key of the i-th source of the last call was in the destination already,
\* from the destination itself or from an earlier source of the call
Clash(i) ==
    Keys(srcs[hist.args[i]]) \cap
        (Keys(hist.prev) \cup UNION {Keys(srcs[hist.args[j]]) : j \in 1..(i - 1)}) # {}

NonZeroIds(store) == DOMAIN store.images \ {0}

\* C22: the stores of builds of one raster with the same Z and disjoint
\* sub-bounds have no non-zero TileImage id in common; a merge of them fails
\* only where a TileMap key is there already, and every merged row with an
\* image of its own has the id of its key and the bytes its sub-build
\* stored for it.
C22_ImageIdsDisjoint ==
    /\ \A i \in DOMAIN srcs : \A j \in DOMAIN srcs :
          i # j => NonZeroIds(srcs[i]) \cap NonZeroIds(srcs[j]) = {}
    /\ hist.calls > 0 =>
          /\ ~hist.ok => \E i \in DOMAIN hist.args : Clash(i)
          /\ \A r \in disk.map :
                r.tile_id # 0 =>
                    /\ r.tile_id = Nr(<<r.zoom_level, r.tile_column, r.tile_row>>)
                    /\ r.tile_id \in DOMAIN disk.images
                    /\ \E i \in DOMAIN srcs :
                          /\ r \in srcs[i].map
                          /\ disk.images[r.tile_id] = srcs[i].images[r.tile_id]

\* C22's case: the sub-builds of single base-level tiles, two of them with
\* images of their own on more than one level, all merged into one file.
C22_Witness ==
    /\ cfg.Z > 0
    /\ hist.parts # split(cfg.Z, cfg.W, cfg.H)
    /\ hist.calls > 0
    /\ hist.ok
    /\ AllMerged
    /\ \E i \in DOMAIN srcs : \E j \in DOMAIN srcs :
          /\ i # j
          /\ Cardinality(NonZeroIds(srcs[i])) > 1
          /\ NonZeroIds(srcs[j]) # {}
    /\ C22_ImageIdsDisjoint

----------------------------------------------------------------------------
(* Properties of the grid arithmetic *)

\* c is the quotient p / q rounded up
IsCeil(c, p, q) == c * q >= p /\ (c - 1) * q < p

\* C16: the grid of level L has ceil(W / (256 * 2^(Z-L))) columns and
\* ceil(H / (256 * 2^(Z-L))) rows; below Z it is the grid of level L + 1
\* halved and rounded up, the parent of every tile of level L + 1 is inside
\* it, and each of its tiles has a child position inside the grid of level
\* L + 1.  For 512 x 512 and Z = 1: 2 x 2 tiles at level 1, one at level 0.
C16_TileGridSize ==
    /\ hist.op = "grid" =>
          LET L == hist.level
              edge == TILE_SIZE * Pow2(cfg.Z - L)
          IN  /\ IsCeil(hist.tiles[1], cfg.W, edge)
              /\ IsCeil(hist.tiles[2], cfg.H, edge)
              /\ L < cfg.Z =>
                    LET up == get_level_tiles(cfg.W, cfg.H, cfg.Z, L + 1)
                    IN  /\ IsCeil(hist.tiles[1], up[1], 2)
                        /\ IsCeil(hist.tiles[2], up[2], 2)
                        /\ \A x \in 0..(up[1] - 1) : \A y \in 0..(up[2] - 1) :
                              x \div 2 < hist.tiles[1] /\ y \div 2 < hist.tiles[2]
                        /\ \A x \in 0..(hist.tiles[1] - 1) : \A y \in 0..(hist.tiles[2] - 1) :
                              2 * x < up[1] /\ 2 * y < up[2]
    /\ get_level_tiles(2 * TILE_SIZE, 2 * TILE_SIZE, 1, 1) = <<2, 2>>
    /\ get_level_tiles(2 * TILE_SIZE, 2 * TILE_SIZE, 1, 0) = <<1, 1>>

\* C16's case: the grid of a level below Z, over a raster that ends inside
\* its last tile, whose last column has one child column only.
C16_Witness ==
    /\ hist.op = "grid"
    /\ hist.level < cfg.Z
    /\ cfg.W % TILE_SIZE # 0
    /\ hist.tiles[1] > 1
    /\ get_level_tiles(cfg.W, cfg.H, cfg.Z, hist.level + 1)[1] % 2 = 1
    /\ C16_TileGridSize

\* the rectangles read for the base-level tiles, in the order of the
\* enumeration
BaseRects ==
    LET base == LevelCoords(cfg.W, cfg.H, cfg.Z, cfg.sub, cfg.Z)
    IN  [i \in DOMAIN base |-> ReadRect(cfg.W, cfg.H, cfg.Z, base[i][2], base[i][3])]

\* rectangles <<x, y, w, h>> without a pixel in common
Apart(a, b) ==
    \/ a[1] + a[3] <= b[1]
    \/ b[1] + b[3] <= a[1]
    \/ a[2] + a[4] <= b[2]
    \/ b[2] + b[4] <= a[2]

InRaster(r) ==
    /\ r[1] >= 0
    /\ r[2] >= 0
    /\ r[3] >= 1
    /\ r[4] >= 1
    /\ r[1] + r[3] <= cfg.W
    /\ r[2] + r[4] <= cfg.H

RECURSIVE Pixels(_, _)
Pixels(rects, k) ==
    IF k = 0 THEN 0 ELSE Pixels(rects, k - 1) + rects[k][3] * rects[k][4]

\* C19: the rectangle read for a base-level tile lies inside the raster and
\* is not empty; the rectangles of distinct tiles have no pixel in common
\* and together hold every pixel of the raster.
C19_InBoundsReads ==
    /\ hist.op = "read" => InRaster(hist.rect)
    /\ \A i \in DOMAIN BaseRects : InRaster(BaseRects[i])
    /\ \A i \in DOMAIN BaseRects : \A j \in DOMAIN BaseRects :
          i # j => Apart(BaseRects[i], BaseRects[j])
    /\ Pixels(BaseRects, Len(BaseRects)) = cfg.W * cfg.H

\* C19's case: the tile at the top right corner of a raster that ends inside
\* it on both sides, with more than one row and column of tiles.
C19_Witness ==
    /\ hist.op = "read"
    /\ hist.tile[1] > 0
    /\ hist.tile[2] > 0
    /\ hist.tile = <<get_level_tiles(cfg.W, cfg.H, cfg.Z, cfg.Z)[1] - 1,
                     get_level_tiles(cfg.W, cfg.H, cfg.Z, cfg.Z)[2] - 1>>
    /\ hist.rect[3] < TILE_SIZE
    /\ hist.rect[4] < TILE_SIZE
    /\ C19_InBoundsReads

\* the tiles the sub-build of one rectangle enumerates
SubKeys(rect) == Range(tile_coords(cfg.W, cfg.H, cfg.Z, rect))

\* sub-bounds <<left, bottom, right, top>> without a tile in common
ApartSub(a, b) ==
    \/ a[3] <= b[1]
    \/ b[3] <= a[1]
    \/ a[4] <= b[2]
    \/ b[4] <= a[2]

\* C20: the rectangles of split() are pairwise disjoint, their left and
\* bottom edges are multiples of 2^Z, and every base-level tile is in one of
\* them; every tile of every level is enumerated by exactly one sub-build,
\* and the children in the grid of an enumerated tile are enumerated by the
\* same sub-build.
C20_SplitPartition ==
    hist.op = "split" =>
        LET rects == hist.rects
            I == DOMAIN rects
        IN  /\ \A i \in I : \A j \in I : i # j => ApartSub(rects[i], rects[j])
            /\ \A i \in I : rects[i][1] % Pow2(cfg.Z) = 0 /\ rects[i][2] % Pow2(cfg.Z) = 0
            /\ \A t \in BaseGrid(cfg.W, cfg.H) :
                  \E i \in I : /\ rects[i][1] <= t[1] /\ t[1] < rects[i][3]
                               /\ rects[i][2] <= t[2] /\ t[2] < rects[i][4]
            /\ \A k \in GridKeys :
                  Cardinality({i \in I : k \in SubKeys(rects[i])}) = 1
            /\ \A i \in I : \A k \in SubKeys(rects[i]) :
                  k[1] < cfg.Z =>
                      \A c \in LevelKeys(k[1] + 1) :
                          (c[2] \div 2 = k[2] /\ c[3] \div 2 = k[3]) => c \in SubKeys(rects[i])

\* C20's case: more than one rectangle, over more than one level, the last
\* rectangle reaching past the raster.
C20_Witness ==
    /\ hist.op = "split"
    /\ cfg.Z > 0
    /\ Len(hist.rects) > 1
    /\ hist.rects[Len(hist.rects)][3] * TILE_SIZE > cfg.W
    /\ C20_SplitPartition

----------------------------------------------------------------------------
(* Properties of a store under all the operations *)

\* C21 (as claimed): after every return of create, resume, merge and
\* set_levels, normal or by error, no two TileMap rows have the same
\* (level, col, row), the unique index on the key exists, and no row has a
\* negative level (a uniform shift keeps distinct keys distinct: the number
\* of keys stays the number of rows).
C21_KeyUniqueness ==
    disk.exists =>
        /\ Cardinality(Keys(disk)) = Cardinality(disk.map)
        /\ disk.tiles_idx
        /\ \A r \in disk.map : r.zoom_level >= 0

\* C21, as long as no exception was raised inside _transpose_levels.
C21_KeyUniquenessNoRaise ==
    ~hist.raised => C21_KeyUniqueness

----------------------------------------------------------------------------
(* Properties of copy *)

\* the TileMap row of a store at a key
RowAt(store, k) ==
    CHOOSE r \in store.map : <<r.zoom_level, r.tile_column, r.tile_row>> = k

\* C23 (as claimed): the joined tile view of the file copy() wrote holds
\* the (level, col, row) -> bytes pairs of the source; every row of the
\* file references an image of the file with the bytes of its source row,
\* and the rows of empty tiles reference image 0.
C23_CopyKeepsView ==
    (pc = "done" /\ disk.exists) =>
        /\ View(disk) = View(db)
        /\ Keys(disk) = Keys(db)
        /\ \A r \in db.map :
              LET d == RowAt(disk, <<r.zoom_level, r.tile_column, r.tile_row>>)
              IN  /\ d.tile_id \in DOMAIN disk.images
                  /\ r.tile_id \in DOMAIN db.images =>
                        disk.images[d.tile_id] = db.images[r.tile_id]
                  /\ r.tile_id = 0 => d.tile_id = 0

\* C23, for what copy() does keep: the metadata, the keys of TileMap, and
\* as many images with the same bytes.
C23_CopyKeepsKeysAndBytes ==
    (pc = "done" /\ disk.exists) =>
        /\ hist.ok
        /\ disk.metadata = db.metadata
        /\ Keys(disk) = Keys(db)
        /\ Cardinality(disk.map) = Cardinality(db.map)
        /\ Cardinality(DOMAIN disk.images) = Cardinality(DOMAIN db.images)
        /\ {disk.images[i] : i \in DOMAIN disk.images} = {db.images[i] : i \in DOMAIN db.images}

----------------------------------------------------------------------------
(* Properties of create called more than once in one process *)

\* the store a process that has made no other call builds for call i
FreshStore(i) ==
    create(NoFile, hist[i].W, hist[i].H, hist[i].Z, DEFAULT_SUB, hist[i].data, {})

\* C24 (as claimed): a call of create without the metadata argument writes
\* the metadata of its own raster, and so the tile grid of its own raster,
\* whatever the calls before it in the same process were.
C24_NoLeakBetweenBuilds ==
    \A i \in DOMAIN srcs :
        ~hist[i].explicit =>
            /\ srcs[i].metadata = default_metadata(hist[i].W, hist[i].H)
            /\ Keys(srcs[i]) = Keys(FreshStore(i).db)
            /\ hist[i].ok = FreshStore(i).ok

\* C24, for the calls it does hold for: the first call of the process, a
\* call that passes its own metadata dict, and a call made while the
\* default dict is still empty.
C24_NoLeakFirstOrExplicit ==
    \A i \in DOMAIN srcs :
        (hist[i].explicit \/ \A j \in 1..(i - 1) : hist[j].explicit) =>
            /\ srcs[i] = FreshStore(i).db
            /\ hist[i].ok = FreshStore(i).ok

============================================================================
